---- MODULE Spec2Model ----
(***************************************************************************)
(* A model of egui_logger: the global log store LOG (a VecDeque behind a   *)
(* Mutex, src/src/lib.rs), the operations on it (Logger::log, clear, the   *)
(* filtered traversal and the length query of LoggerUi::ui, src/src/ui.rs) *)
(* and the per-record decoding of a line through anstyle_parse into        *)
(* coloured labels (AnstylePerformer, src/src/ui.rs).                      *)
(***************************************************************************)
EXTENDS Integers, Sequences, FiniteSets, TLC

VARIABLES
    LOG,                \* lib.rs:142  the VecDeque<(Level, String)>, front first
    lock,               \* holder of the LOG mutex, or "none"
    poisoned,           \* the LOG mutex is poisoned
    ui_lock_poisoned,
    ui_lock,            \* the thread holding the guard of LOGGER_UI (lib.rs:156), or "none"
    LOG_VEC,            \* per thread: the thread-local buffer of lib.rs:114-116, as the number
                        \* of the event whose text it holds, 0 when it is empty   \* the LOGGER_UI mutex (lib.rs:145) is poisoned
    log_to_env_logger,  \* Logger fields, lib.rs:99-104
    log_to_egui_ui,
    ui_level_filter,
    pc,                 \* position of every thread
    calls,              \* number of operations started: by the producers, the clearer, the renderer
    rec,                \* the record a producer is storing
    env_out,            \* number of records handed to env_logger
    dropped,            \* number of try_mut_log calls that returned None
    level_filter,       \* argument of the running ui_filter call
    iter,               \* position of logs.iter() in log_filter_process
    logs_processed,     \* ui.rs:30
    logs_displayed,     \* ui.rs:77
    log_size,           \* the length shown by "Log size: {}", ui.rs:108
    get_result,         \* what the try_get_log of the traversal returned
    copied_text,        \* o.copied_text, ui.rs:120: the pieces of the copied string
    visited,            \* records handed to the visitor f, in call order
    snap,               \* history: LOG when the traversal took the lock
    hist,               \* history: completed mutations of LOG, in lock order
    line,               \* decoder: the bytes of the record being rendered
    base_level,         \* decoder: the level of that record
    pos,                \* decoder: index of the next byte of line
    state,              \* decoder: the state of anstyle_parse::Parser
    text,               \* AnstylePerformer.text
    color,              \* AnstylePerformer.color
    labels,             \* the colored_label calls made, in order
    dpc                 \* decoder: position in ui.rs:91-100

storeVars == <<LOG, lock, poisoned, ui_lock_poisoned, ui_lock, LOG_VEC, log_to_env_logger,
               log_to_egui_ui, ui_level_filter, pc, calls, rec, env_out,
               dropped, level_filter, iter, logs_processed, logs_displayed, log_size,
               get_result, copied_text, visited, snap, hist>>
decodeVars == <<line, base_level, pos, state, text, color, labels, dpc>>
vars == <<storeVars, decodeVars>>

\* The threads: two that call Logger::log, one that calls clear, one that
\* calls ui_filter.
Producers == {"p1", "p2"}
Clearer == "cl"
Renderer == "ui"
Threads == Producers \cup {Clearer, Renderer}

(***************************************************************************)
(* Bounds of the model.  LOG_MAX_LEN is 10000 in lib.rs:10; the model      *)
(* keeps the constant's role and scales its value.  The other bounds cap   *)
(* the number of Logger::log, clear and ui_filter calls of a behaviour and *)
(* the length of a decoded line.                                           *)
(***************************************************************************)
LOG_MAX_LEN == 2
MaxLogCalls == 4
MaxClears == 1
MaxRenders == 1
MaxLineLen == 5

Min(a, b) == IF a < b THEN a ELSE b

(***************************************************************************)
(* log::Level and log::LevelFilter, and the order `level <= level_filter`  *)
(* compares them by (lib.rs:113, ui.rs:32).                                *)
(***************************************************************************)
Levels == {"Error", "Warn", "Info", "Debug", "Trace"}
LevelFilters == {"Off"} \cup Levels

AsUsize(l) ==
    CASE l = "Off" -> 0
      [] l = "Error" -> 1
      [] l = "Warn" -> 2
      [] l = "Info" -> 3
      [] l = "Debug" -> 4
      [] l = "Trace" -> 5

\* (LevelLt: the comparison made strict, a variant the properties must tell
\* from LevelLe.)
LevelLt(level, filter) == AsUsize(level) < AsUsize(filter)

LevelLe(level, filter) == AsUsize(level) <= AsUsize(filter)

\* The inputs the model draws: the levels each producer thread logs at, the
\* answers of inner_logger.enabled, the thresholds the renderer is called with.
PushLevels == [p \in Producers |-> IF p = "p1" THEN {"Error"} ELSE {"Info"}]
EnabledAnswers == {TRUE}
RenderFilters == {"Off", "Error", "Info"}

(***************************************************************************)
(* VecDeque operations used on LOG.  Next to each stands a faulty variant   *)
(* (a push that overwrites the front, a truncate that drops the newest or  *)
(* keeps one too many, a clear that removes one record) which the          *)
(* properties below must tell from the operation.                          *)
(***************************************************************************)
push_front_replace(logs, r) == IF logs = <<>> THEN <<r>> ELSE <<r>> \o Tail(logs)

push_back(logs, r) == Append(logs, r)

push_front(logs, r) == <<r>> \o logs

truncate_newest(logs, n) ==
    IF Len(logs) <= n THEN logs ELSE SubSeq(logs, Len(logs) - n + 1, Len(logs))

truncate_off_by_one(logs, n) == SubSeq(logs, 1, Min(n + 1, Len(logs)))

truncate(logs, n) == SubSeq(logs, 1, Min(n, Len(logs)))

clear_pop(logs) == IF logs = <<>> THEN logs ELSE Tail(logs)

clear(logs) == <<>>

(***************************************************************************)
(* Mutex::lock on LOG as try_mut_log and try_get_log use it: it blocks     *)
(* while another thread holds the guard, and yields Err once poisoned.     *)
(* Faulty variants: a lock that excludes nobody, a lock whose poisoning is *)
(* ignored (PoisonError::into_inner).                                      *)
(***************************************************************************)
LockNotExclusive(t) == TRUE

LockAvailable(t) == lock = "none"

\* The drop of a MutexGuard of LOG held by t (drop_guard_leak: the guard is
\* leaked, as by mem::forget, and the mutex stays locked).
drop_guard_leak(t) == lock

drop_guard(t) == IF lock = t THEN "none" ELSE lock

LockResultIntoInner(p) == "Ok"

LockResult(p) == IF p THEN "Err" ELSE "Ok"

(***************************************************************************)
(* Logger::log, lib.rs:111-133.  `en` is the answer of                     *)
(* inner_logger.enabled for the record.                                    *)
(***************************************************************************)
NoRecord == [level |-> "Error", by |-> "none", n |-> 0]

\* lib.rs:112-113 (StoresAnyLevel: a variant that leaves ui_level_filter out)
StoresAnyLevel(en, level) == en /\ log_to_egui_ui

StoresRecord(en, level) ==
    en /\ log_to_egui_ui /\ LevelLe(level, ui_level_filter)

uiTravVars == <<level_filter, iter, logs_processed, logs_displayed, log_size,
                get_result, copied_text, visited, snap>>
cfgVars == <<log_to_env_logger, log_to_egui_ui, ui_level_filter>>

\* lib.rs:112-123 and the LOG.lock() of try_mut_log (ui.rs:10-13).  LOG_VEC
\* is taken, which leaves it empty; when the lock is poisoned the call goes
\* on to lib.rs:129 and sets the buffer back with the event's text in it.
LogLock(p, level, en) ==
    /\ pc[p] = "idle"
    /\ calls.log < MaxLogCalls
    /\ calls' = [calls EXCEPT !.log = @ + 1]
    /\ IF StoresRecord(en, level)
       THEN /\ LockAvailable(p)
            /\ env_out' = IF log_to_env_logger THEN env_out + 1 ELSE env_out
            /\ IF LockResult(poisoned) = "Ok"
               THEN /\ lock' = p
                    /\ pc' = [pc EXCEPT ![p] = "push_front"]
                    /\ rec' = [rec EXCEPT ![p] =
                                 [level |-> level, by |-> p, n |-> calls.log + 1]]
                    /\ LOG_VEC' = [LOG_VEC EXCEPT ![p] = 0]
                    /\ UNCHANGED dropped
               ELSE /\ dropped' = dropped + 1
                    /\ LOG_VEC' = [LOG_VEC EXCEPT ![p] = calls.log + 1]
                    /\ UNCHANGED <<lock, pc, rec>>
       ELSE /\ env_out' = IF en /\ log_to_env_logger THEN env_out + 1 ELSE env_out
            /\ UNCHANGED <<lock, pc, rec, dropped, LOG_VEC>>
    /\ UNCHANGED <<LOG, poisoned, ui_lock_poisoned, ui_lock, cfgVars, uiTravVars, hist,
                   decodeVars>>

\* lib.rs:125
PushFront(p) ==
    /\ pc[p] = "push_front"
    /\ LOG' = push_front(LOG, rec[p])
    /\ pc' = [pc EXCEPT ![p] = "truncate"]
    /\ UNCHANGED <<lock, poisoned, ui_lock_poisoned, ui_lock, LOG_VEC, cfgVars, calls,
                   rec, env_out, dropped, uiTravVars, hist, decodeVars>>

\* lib.rs:125: push_front panics while growing (capacity overflow); the
\* guard is dropped during unwinding, which poisons the mutex.
PushPanic(p) ==
    /\ pc[p] = "push_front"
    /\ lock' = "none"
    /\ poisoned' = TRUE
    /\ pc' = [pc EXCEPT ![p] = "panicked"]
    /\ rec' = [rec EXCEPT ![p] = NoRecord]
    /\ UNCHANGED <<LOG, ui_lock_poisoned, ui_lock, LOG_VEC, cfgVars, calls, env_out,
                   dropped, uiTravVars, hist, decodeVars>>

\* lib.rs:126-129: truncate, the end of the guard's scope, and LOG_VEC.set
\* of the buffer, which holds the text just stored
Truncate(p) ==
    /\ pc[p] = "truncate"
    /\ LOG' = truncate(LOG, LOG_MAX_LEN)
    /\ lock' = drop_guard(p)
    /\ pc' = [pc EXCEPT ![p] = "idle"]
    /\ hist' = Append(hist, [op |-> "push", r |-> rec[p]])
    /\ rec' = [rec EXCEPT ![p] = NoRecord]
    /\ LOG_VEC' = [LOG_VEC EXCEPT ![p] = rec[p].n]
    /\ UNCHANGED <<poisoned, ui_lock_poisoned, ui_lock, cfgVars, calls, env_out, dropped,
                   uiTravVars, decodeVars>>

(***************************************************************************)
(* clear, lib.rs:163-166.                                                  *)
(***************************************************************************)
Clear ==
    /\ pc[Clearer] = "idle"
    /\ calls.clear < MaxClears
    /\ LockAvailable(Clearer)
    /\ calls' = [calls EXCEPT !.clear = @ + 1]
    /\ IF LockResult(poisoned) = "Ok"
       THEN /\ LOG' = clear(LOG)
            /\ hist' = Append(hist, [op |-> "clear", r |-> NoRecord])
            /\ UNCHANGED dropped
       ELSE /\ dropped' = dropped + 1
            /\ UNCHANGED <<LOG, hist>>
    /\ UNCHANGED <<lock, poisoned, ui_lock_poisoned, ui_lock, LOG_VEC, cfgVars, pc, rec,
                   env_out, uiTravVars, decodeVars>>

(***************************************************************************)
(* ui_filter (lib.rs:155-161) and LoggerUi::ui (ui.rs:74-126).             *)
(***************************************************************************)
\* lib.rs:156-160, ui.rs:75-84, ui.rs:30-31 and the LOG.lock() of try_get_log
\* (ui.rs:20-23): the call up to the point where the traversal holds the guard.
UiFilter(f) ==
    /\ pc[Renderer] = "idle"
    /\ calls.render < MaxRenders
    /\ calls' = [calls EXCEPT !.render = @ + 1]
    /\ IF ui_lock_poisoned
       THEN UNCHANGED <<lock, ui_lock, pc, level_filter, iter, logs_processed,
                        logs_displayed, log_size, get_result, visited, snap>>
       ELSE /\ LockAvailable(Renderer)
            /\ ui_lock' = Renderer
            /\ level_filter' = f
            /\ logs_processed' = 0
            /\ logs_displayed' = 0
            /\ log_size' = 0
            /\ visited' = <<>>
            /\ get_result' = LockResult(poisoned)
            /\ IF LockResult(poisoned) = "Ok"
               THEN /\ lock' = Renderer
                    /\ iter' = 1
                    /\ snap' = LOG
                    /\ pc' = [pc EXCEPT ![Renderer] = "iter"]
               ELSE /\ pc' = [pc EXCEPT ![Renderer] = "len"]
                    /\ UNCHANGED <<lock, iter, snap>>
    /\ UNCHANGED <<LOG, poisoned, ui_lock_poisoned, LOG_VEC, cfgVars, rec, env_out,
                   dropped, copied_text, hist, decodeVars>>

\* The indexes at or after i of the records the filter closure of ui.rs:32 lets through.
Passing(logs, i, f) == {j \in i..Len(logs) : LevelLe(logs[j].level, f)}

SetMin(S) == CHOOSE x \in S : \A y \in S : x <= y

\* ui.rs:32-35: one next() of the filtered iterator and the loop body, or,
\* when the iterator is exhausted, the end of the closure (the guard is
\* dropped) and the return of logs_processed into logs_displayed (ui.rs:37, 84).
IterNext ==
    /\ pc[Renderer] = "iter"
    /\ LET S == Passing(LOG, iter, level_filter) IN
       IF S # {}
       THEN /\ logs_processed' = logs_processed + 1
            /\ visited' = Append(visited, LOG[SetMin(S)])
            /\ iter' = SetMin(S) + 1
            /\ UNCHANGED <<lock, pc, logs_displayed>>
       ELSE /\ lock' = drop_guard(Renderer)
            /\ logs_displayed' = logs_processed
            /\ pc' = [pc EXCEPT ![Renderer] = "len"]
            /\ UNCHANGED <<logs_processed, visited, iter>>
    /\ UNCHANGED <<LOG, poisoned, ui_lock_poisoned, ui_lock, LOG_VEC, cfgVars, calls,
                   rec, env_out, dropped, level_filter, log_size, get_result,
                   copied_text, snap, hist, decodeVars>>

\* ui.rs:34: the visitor (egui calls) panics; unwinding drops the LOG guard
\* and the LOGGER_UI guard of lib.rs:156, poisoning both.
VisitPanic ==
    /\ pc[Renderer] = "iter"
    /\ Passing(LOG, iter, level_filter) # {}
    /\ lock' = drop_guard(Renderer)
    /\ poisoned' = TRUE
    /\ ui_lock_poisoned' = TRUE
    /\ ui_lock' = "none"
    /\ pc' = [pc EXCEPT ![Renderer] = "idle"]
    /\ UNCHANGED <<LOG, LOG_VEC, cfgVars, calls, rec, env_out, dropped, uiTravVars, hist,
                   decodeVars>>

\* ui.rs:105-112: the length shown, and whether "Copy Logs" is clicked.  The
\* traversal is over: its locals and its history are dropped.  Without the
\* click the call returns and the guard of LOGGER_UI is dropped (lib.rs:156-160).
LenQuery(clicked) ==
    /\ pc[Renderer] = "len"
    /\ LockAvailable(Renderer)
    /\ log_size' = IF LockResult(poisoned) = "Ok" THEN Len(LOG) ELSE 0
    /\ pc' = [pc EXCEPT ![Renderer] = IF clicked THEN "copy" ELSE "idle"]
    /\ iter' = 1
    /\ logs_processed' = 0
    /\ visited' = <<>>
    /\ snap' = <<>>
    /\ ui_lock' = IF clicked THEN ui_lock ELSE "none"
    /\ UNCHANGED <<LOG, lock, poisoned, ui_lock_poisoned, LOG_VEC, cfgVars, calls, rec,
                   env_out, dropped, level_filter, logs_displayed, get_result,
                   copied_text, hist, decodeVars>>

\* ui.rs:115-119: out_string, as the pieces pushed onto it: for every record
\* of the store its string and then " \n", whatever the record's level.
StringOf(r) == [piece |-> "string", r |-> r]
LineSep == [piece |-> " \\n", r |-> NoRecord]

RECURSIVE out_string(_)
out_string(logs) ==
    IF logs = <<>> THEN <<>>
    ELSE <<StringOf(Head(logs)), LineSep>> \o out_string(Tail(logs))

\* ui.rs:112-122, and the return of the call (lib.rs:156-160)
CopyLogs ==
    /\ pc[Renderer] = "copy"
    /\ LockAvailable(Renderer)
    /\ copied_text' = IF LockResult(poisoned) = "Ok" THEN out_string(LOG) ELSE copied_text
    /\ pc' = [pc EXCEPT ![Renderer] = "idle"]
    /\ ui_lock' = "none"
    /\ UNCHANGED <<LOG, lock, poisoned, ui_lock_poisoned, LOG_VEC, cfgVars, calls, rec,
                   env_out, dropped, level_filter, iter, logs_processed,
                   logs_displayed, log_size, get_result, visited, snap, hist,
                   decodeVars>>

(***************************************************************************)
(* The visitor of LoggerUi::ui (ui.rs:84-101): one record's line is fed    *)
(* byte by byte to anstyle_parse::Parser, which calls the methods of       *)
(* AnstylePerformer; flush hands text to ui.colored_label.  Bytes are      *)
(* their ASCII codes: 27 is ESC, 91 "[", 109 "m", 10 "\n".                 *)
(***************************************************************************)
\* ui.rs:85-89
LevelColor(level) ==
    CASE level = "Warn" -> "YELLOW"
      [] level = "Error" -> "RED"
      [] OTHER -> "PLACEHOLDER"

\* The state table of anstyle_parse::Parser::advance for the bytes 0..127
\* and the states the model's bytes reach: the next state and the action.
IsC0(b) == b \in (0..23) \cup {25} \cup (28..31)

StateChange(st, b) ==
    CASE b = 27 -> [state |-> "Escape", action |-> "Nop"]
      [] b \in {24, 26} -> [state |-> "Ground", action |-> "Execute"]
      [] IsC0(b) -> [state |-> st, action |-> "Execute"]
      [] st = "Ground" -> [state |-> "Ground", action |-> "Print"]
      [] st = "Escape" /\ b = 91 -> [state |-> "CsiEntry", action |-> "Nop"]
      [] st = "Escape" /\ b \in (48..79) \cup (81..87) \cup {89, 90, 92} \cup (96..126) ->
             [state |-> "Ground", action |-> "EscDispatch"]
      [] st \in {"CsiEntry", "CsiParam"} /\ b \in (48..57) \cup {59} ->
             [state |-> "CsiParam", action |-> "Param"]
      [] st \in {"CsiEntry", "CsiParam"} /\ b \in 64..126 ->
             [state |-> "Ground", action |-> "CsiDispatch"]
      [] OTHER -> [state |-> st, action |-> "Ignore"]

\* ui.rs:47-52  AnstylePerformer::flush; a performer is [text, color, labels]
\* (flush_discard: a variant that clears the text without showing it;
\* flush_unchecked: one that shows the text without the test for emptiness)
flush_discard(perf) == [perf EXCEPT !.text = <<>>]
flush_unchecked(perf) ==
    [perf EXCEPT !.labels = Append(@, [text |-> perf.text, color |-> perf.color]),
                 !.text = <<>>]

flush(perf) ==
    IF perf.text # <<>>
    THEN [perf EXCEPT !.labels = Append(@, [text |-> perf.text, color |-> perf.color]),
                      !.text = <<>>]
    ELSE perf

\* ui.rs:56-62  AnstylePerformer::print (print_twice: a faulty variant)
print_twice(perf, c) ==
    IF c = 10 THEN flush(perf) ELSE [perf EXCEPT !.text = @ \o <<c, c>>]

print(perf, c) ==
    IF c = 10 THEN flush(perf) ELSE [perf EXCEPT !.text = Append(@, c)]

\* ui.rs:55-63: the impl overrides print alone, so execute, csi_dispatch and
\* esc_dispatch are the trait's empty defaults (execute_push: a variant that
\* shows control bytes).
execute_push(perf, b) == [perf EXCEPT !.text = Append(@, b)]

execute(perf, b) == perf

csi_dispatch(perf, b) == perf

esc_dispatch(perf, b) == perf

\* The call Parser::advance makes on the performer for an action.
Perform(perf, action, b) ==
    CASE action = "Print" -> print(perf, b)
      [] action = "Execute" -> execute(perf, b)
      [] action = "CsiDispatch" -> csi_dispatch(perf, b)
      [] action = "EscDispatch" -> esc_dispatch(perf, b)
      [] OTHER -> perf

Performer == [text |-> text, color |-> color, labels |-> labels]

\* ui.rs:85-96
DecodeStart ==
    /\ dpc = "start"
    /\ color' = LevelColor(base_level)
    /\ state' = "Ground"
    /\ text' = <<>>
    /\ pos' = 1
    /\ dpc' = "advance"
    /\ UNCHANGED <<line, base_level, labels, storeVars>>

\* ui.rs:97-99: one iteration of the loop over line.as_bytes()
Advance ==
    /\ dpc = "advance"
    /\ pos <= Len(line)
    /\ LET ch == StateChange(state, line[pos])
           after == Perform(Performer, ch.action, line[pos])
       IN /\ state' = ch.state
          /\ text' = after.text
          /\ color' = after.color
          /\ labels' = after.labels
    /\ pos' = pos + 1
    /\ UNCHANGED <<line, base_level, dpc, storeVars>>

\* ui.rs:100: the loop is over, performer.flush()
FinalFlush ==
    /\ dpc = "advance"
    /\ pos > Len(line)
    /\ LET after == flush(Performer)
       IN /\ text' = after.text
          /\ color' = after.color
          /\ labels' = after.labels
    /\ dpc' = "done"
    /\ UNCHANGED <<line, base_level, pos, state, storeVars>>

DecodeIdle ==
    /\ line = <<>>
    /\ base_level = "Info"
    /\ pos = 1
    /\ state = "Ground"
    /\ text = <<>>
    /\ color = "PLACEHOLDER"
    /\ labels = <<>>
    /\ dpc = "idle"

\* lib.rs:87-96 (Builder::default)
BuilderDefault ==
    /\ log_to_env_logger = TRUE
    /\ log_to_egui_ui = TRUE
    /\ ui_level_filter = "Trace"

\* lib.rs:142 (LOG), lib.rs:144-147 (LOGGER_UI), and no call under way
StoreEmpty ==
    /\ LOG = <<>>
    /\ lock = "none"
    /\ poisoned = FALSE
    /\ ui_lock_poisoned = FALSE
    /\ ui_lock = "none"
    /\ LOG_VEC = [p \in Producers |-> 0]
    /\ pc = [t \in Threads |-> "idle"]
    /\ calls = [log |-> 0, clear |-> 0, render |-> 0]
    /\ rec = [p \in Producers |-> NoRecord]
    /\ env_out = 0
    /\ dropped = 0
    /\ level_filter = "Info"
    /\ iter = 1
    /\ logs_processed = 0
    /\ logs_displayed = 0
    /\ log_size = 0
    /\ get_result = "none"
    /\ copied_text = <<>>
    /\ visited = <<>>
    /\ snap = <<>>
    /\ hist = <<>>

StoreIdle == BuilderDefault /\ StoreEmpty

Init == StoreIdle /\ DecodeIdle

Next ==
    \/ \E p \in Producers, en \in EnabledAnswers :
          \E l \in PushLevels[p] : LogLock(p, l, en)
    \/ \E p \in Producers : PushFront(p)
    \/ \E p \in Producers : PushPanic(p)
    \/ \E p \in Producers : Truncate(p)
    \/ Clear
    \/ \E f \in RenderFilters : UiFilter(f)
    \/ IterNext
    \/ VisitPanic
    \/ \E clicked \in BOOLEAN : LenQuery(clicked)
    \/ CopyLogs

Spec == Init /\ [][Next]_vars

(***************************************************************************)
(* The same program under fair scheduling: a thread inside an operation    *)
(* takes its next step (or panics there), and a thread waiting in          *)
(* LOG.lock() gets the lock if it is free again and again.  The behaviours *)
(* are those of Next with at most MaxFairLogCalls calls of Logger::log.    *)
(***************************************************************************)
MaxFairLogCalls == 2

NextFair ==
    \/ \E p \in Producers, en \in EnabledAnswers :
          \E l \in PushLevels[p] : calls.log < MaxFairLogCalls /\ LogLock(p, l, en)
    \/ \E p \in Producers : PushFront(p)
    \/ \E p \in Producers : PushPanic(p)
    \/ \E p \in Producers : Truncate(p)
    \/ Clear
    \/ \E f \in RenderFilters : UiFilter(f)
    \/ IterNext
    \/ VisitPanic
    \/ \E clicked \in BOOLEAN : LenQuery(clicked)
    \/ CopyLogs

Fairness ==
    /\ \A p \in Producers : WF_vars(PushFront(p) \/ PushPanic(p))
    /\ \A p \in Producers : WF_vars(Truncate(p))
    /\ WF_vars(IterNext \/ VisitPanic)
    /\ SF_vars(\E clicked \in BOOLEAN : LenQuery(clicked))
    /\ SF_vars(CopyLogs)

SpecFair == Init /\ [][NextFair]_vars /\ Fairness

(***************************************************************************)
(* The decoding of one line, for every line of the model's bytes up to     *)
(* MaxLineLen, the line of the colour transition scenario, and the levels  *)
(* that give the three colours.                                            *)
(***************************************************************************)
Alphabet == {65, 27, 91, 51, 109, 10}
ScenarioLine == <<65, 27, 91, 51, 51, 109, 66, 27, 91, 48, 109, 67>>
DecodeLines ==
    UNION {[1..n -> Alphabet] : n \in 0..MaxLineLen} \cup {ScenarioLine}
DecodeLevels == {"Error", "Warn", "Info"}

InitDecode ==
    /\ StoreIdle
    /\ line \in DecodeLines
    /\ base_level \in DecodeLevels
    /\ pos = 1
    /\ state = "Ground"
    /\ text = <<>>
    /\ color = "PLACEHOLDER"
    /\ labels = <<>>
    /\ dpc = "start"

NextDecode == DecodeStart \/ Advance \/ FinalFlush

SpecDecode == InitDecode /\ [][NextDecode]_vars

(***************************************************************************)
(* Logger::log under every configuration a Builder can give a Logger       *)
(* (lib.rs:46-63): the two switches, a ui_level_filter among four of the   *)
(* filters, records of three levels, and both answers of the inner         *)
(* logger's enabled.  A push can panic, which poisons the store.           *)
(***************************************************************************)
LoggerFilters == {"Off", "Error", "Info", "Trace"}
LoggerLevels == {"Error", "Info", "Debug"}

InitLogger ==
    /\ log_to_env_logger \in BOOLEAN
    /\ log_to_egui_ui \in BOOLEAN
    /\ ui_level_filter \in LoggerFilters
    /\ StoreEmpty
    /\ DecodeIdle

NextLogger ==
    \/ \E p \in Producers, l \in LoggerLevels, en \in BOOLEAN : LogLock(p, l, en)
    \/ \E p \in Producers : PushFront(p)
    \/ \E p \in Producers : PushPanic(p)
    \/ \E p \in Producers : Truncate(p)

SpecLogger == InitLogger /\ [][NextLogger]_vars

(***************************************************************************)
(* Properties of the store.  They are stated over the history hist and     *)
(* over sequences directly, not through the operators that model the code. *)
(***************************************************************************)
SeqRange(q) == {q[i] : i \in 1..Len(q)}
NoDuplicates(q) == \A i, j \in 1..Len(q) : i # j => q[i] # q[j]
RECURSIVE Reverse(_)
Reverse(q) == IF q = <<>> THEN <<>> ELSE Append(Reverse(Tail(q)), Head(q))
Prefix(q, k) == SubSeq(q, 1, IF k < Len(q) THEN k ELSE Len(q))

\* No producer is between its push_front and its truncate.
Quiescent == \A p \in Producers : pc[p] # "truncate"
NoClear(h) == \A i \in 1..Len(h) : h[i].op = "push"
LastClear(h) ==
    IF NoClear(h) THEN 0
    ELSE CHOOSE i \in 1..Len(h) :
           h[i].op = "clear" /\ \A j \in (i + 1)..Len(h) : h[j].op = "push"
\* The records pushed after the last clear, oldest first.
PushedSinceClear(h) == [i \in 1..(Len(h) - LastClear(h)) |-> h[LastClear(h) + i].r]
PushedBeforeClear(h) ==
    {h[i].r : i \in {j \in 1..LastClear(h) : h[j].op = "push"}}

\* C1: between operations the store never holds more than LOG_MAX_LEN records,
\* and after N pushes and no clear it holds min(N, LOG_MAX_LEN) of them.
C1_BoundedSize ==
    Quiescent =>
        /\ Len(LOG) <= LOG_MAX_LEN
        /\ NoClear(hist) =>
              Len(LOG) = (IF Len(hist) < LOG_MAX_LEN THEN Len(hist) ELSE LOG_MAX_LEN)

C1_Witness ==
    /\ Quiescent
    /\ NoClear(hist)
    /\ Len(hist) > LOG_MAX_LEN
    /\ Len(LOG) = LOG_MAX_LEN

\* C2: after LOG_MAX_LEN + k pushes and no clear the store holds exactly the
\* LOG_MAX_LEN most recently pushed records, newest at the front, each in
\* the position its push order gives it.
C2_EvictionOrder ==
    (Quiescent /\ NoClear(hist) /\ Len(hist) >= LOG_MAX_LEN) =>
        /\ Len(LOG) = LOG_MAX_LEN
        /\ \A i \in 1..LOG_MAX_LEN : LOG[i] = hist[Len(hist) - i + 1].r
        /\ \A i \in 1..(Len(hist) - LOG_MAX_LEN) : hist[i].r \notin SeqRange(LOG)

C2_Witness ==
    /\ Quiescent
    /\ NoClear(hist)
    /\ Len(hist) = LOG_MAX_LEN + 2
    /\ LOG[1] = hist[Len(hist)].r
    /\ \E i, j \in 1..Len(LOG) : LOG[i].by # LOG[j].by

\* C3: when every producer thread has finished its pushes, with no clear and
\* no poisoning, the store holds min(number of pushes, LOG_MAX_LEN) records,
\* each of them one that a thread pushed, and none twice.
AllPushesDone ==
    /\ calls.log = MaxLogCalls
    /\ \A p \in Producers : pc[p] = "idle"
C3_ConcurrentPushes ==
    (AllPushesDone /\ calls.clear = 0 /\ ~poisoned) =>
        /\ Len(LOG) = (IF MaxLogCalls < LOG_MAX_LEN THEN MaxLogCalls ELSE LOG_MAX_LEN)
        /\ Len(hist) = MaxLogCalls
        /\ SeqRange(LOG) \subseteq {h.r : h \in SeqRange(hist)}
        /\ \A r \in SeqRange(LOG) : r.by \in Producers /\ r.level \in PushLevels[r.by]
        /\ NoDuplicates(LOG)

C3_Witness ==
    /\ AllPushesDone
    /\ calls.clear = 0
    /\ ~poisoned
    /\ \A p \in Producers : \E h \in SeqRange(hist) : h.r.by = p
    /\ Len(LOG) = LOG_MAX_LEN

\* The levels a threshold admits: those at least as severe as it, Error being
\* the most severe and Off admitting none.
Admits(f) ==
    CASE f = "Off" -> {}
      [] f = "Error" -> {"Error"}
      [] f = "Warn" -> {"Error", "Warn"}
      [] f = "Info" -> {"Error", "Warn", "Info"}
      [] f = "Debug" -> {"Error", "Warn", "Info", "Debug"}
      [] f = "Trace" -> {"Error", "Warn", "Info", "Debug", "Trace"}
RECURSIVE Admitted(_, _)
Admitted(q, f) ==
    IF q = <<>> THEN <<>>
    ELSE IF Head(q).level \in Admits(f) THEN <<Head(q)>> \o Admitted(Tail(q), f)
    ELSE Admitted(Tail(q), f)
Traversing == pc[Renderer] = "iter"
Traversed == pc[Renderer] = "len" /\ get_result = "Ok"

\* C4: a traversal sees the store as it was when it took the lock: while it
\* runs the store does not change and the records visited so far are the
\* admitted ones of the part of that snapshot already passed; when it ends
\* it has visited the admitted records of the whole snapshot; and neither it
\* nor the length query ever sees more than LOG_MAX_LEN records.
C4_SnapshotReads ==
    /\ Traversing =>
          /\ LOG = snap
          /\ Len(snap) <= LOG_MAX_LEN
          /\ visited = Admitted(Prefix(snap, iter - 1), level_filter)
    /\ Traversed =>
          /\ Len(snap) <= LOG_MAX_LEN
          /\ visited = Admitted(snap, level_filter)
    /\ log_size <= LOG_MAX_LEN

\* A traversal is under way over a full store and has visited a record,
\* while a producer has formatted nothing yet and calls remain.
C4_Witness ==
    /\ Traversing
    /\ Len(snap) = LOG_MAX_LEN
    /\ Len(visited) >= 1
    /\ iter <= Len(snap)
    /\ calls.log < MaxLogCalls
    /\ calls.clear < MaxClears

\* C5 as stated: once a clear has completed, the store holds exactly the
\* records pushed after it (and is empty right after it).
C5_ClearThenExactlyLaterPushes ==
    (Quiescent /\ ~NoClear(hist)) =>
        /\ SeqRange(LOG) = SeqRange(PushedSinceClear(hist))
        /\ SeqRange(LOG) \cap PushedBeforeClear(hist) = {}
        /\ hist[Len(hist)].op = "clear" =>
              /\ Len(LOG) = 0
              /\ \A f \in LevelFilters : Admitted(LOG, f) = <<>>

\* C5 amended: once a clear has completed, the store holds the LOG_MAX_LEN
\* most recent of the records pushed after the last clear, newest first, and
\* none pushed before it; right after a clear it is empty and a traversal
\* with any threshold visits nothing.
C5_ClearThenLatestLaterPushes ==
    (Quiescent /\ ~NoClear(hist)) =>
        /\ LOG = Prefix(Reverse(PushedSinceClear(hist)), LOG_MAX_LEN)
        /\ SeqRange(LOG) \cap PushedBeforeClear(hist) = {}
        /\ hist[Len(hist)].op = "clear" =>
              /\ Len(LOG) = 0
              /\ \A f \in LevelFilters : Admitted(LOG, f) = <<>>

\* A clear raced with pushes: records were pushed before it and after it.
C5_Witness ==
    /\ Quiescent
    /\ ~NoClear(hist)
    /\ PushedBeforeClear(hist) # {}
    /\ Len(PushedSinceClear(hist)) >= 1
    /\ LOG # <<>>

\* The positions in hist of the pushes of the records of q.
PushIndex(r) == CHOOSE i \in 1..Len(hist) : hist[i].op = "push" /\ hist[i].r = r

\* C6: a finished traversal has called the visitor once for each record of
\* the store that the threshold admits and for no other, none for Off, the
\* most recently pushed first, and returns the number of calls.
C6_FilteredTraversal ==
    Traversed =>
        /\ visited = Admitted(snap, level_filter)
        /\ level_filter = "Off" => visited = <<>>
        /\ \A i, j \in 1..Len(visited) :
              i < j => PushIndex(visited[i]) > PushIndex(visited[j])
        /\ logs_processed = Len(visited)
        /\ logs_displayed = Len(visited)

\* A traversal that admitted some records of the store and not others.
C6_Witness ==
    /\ Traversed
    /\ Len(visited) >= 1
    /\ Len(visited) < Len(snap)
    /\ level_filter = "Error"

\* C7: once LOG's lock is poisoned, no step changes the store, no step is a
\* panic, a traversal visits nothing and returns 0, and the length shown is 0.
C7_PoisonedIsSoftFailure ==
    [][poisoned =>
         /\ LOG' = LOG
         /\ hist' = hist
         /\ \A t \in Threads : pc'[t] = "panicked" => pc[t] = "panicked"
         /\ poisoned'
         /\ (pc[Renderer] = "idle" /\ pc'[Renderer] # "idle") =>
               /\ pc'[Renderer] = "len"
               /\ get_result' = "Err"
               /\ visited' = <<>>
               /\ logs_processed' = 0
               /\ logs_displayed' = 0
         /\ (pc[Renderer] = "len" /\ pc'[Renderer] # "len") => log_size' = 0
         /\ copied_text' = copied_text
         /\ calls'.log + calls'.clear - calls.log - calls.clear
              = dropped' - dropped]_vars

\* Under a poisoned lock a clear and a push were dropped, and a render of a
\* store that is not empty has shown nothing and length 0.
C7_Witness ==
    /\ poisoned
    /\ dropped >= 2
    /\ calls.clear = 1
    /\ NoClear(hist)
    /\ LOG # <<>>
    /\ calls.render >= 1
    /\ pc[Renderer] = "idle"
    /\ get_result = "Err"
    /\ logs_displayed = 0
    /\ log_size = 0

(***************************************************************************)
(* Properties of the decoding, under SpecDecode.  An escape sequence is    *)
(* described by its grammar: ESC, then either "[" with parameter bytes up  *)
(* to a final byte 64..126, or one byte 48..126; control bytes inside it   *)
(* belong to it, a further ESC or the end of the line cuts it short.       *)
(***************************************************************************)
Decoded == dpc = "done"
IsControl(b) == b < 32
HasNoEscape(q) == \A i \in 1..Len(q) : q[i] # 27
IsPrintable(q) == \A i \in 1..Len(q) : q[i] \in 32..126
RECURSIVE Concat(_)
Concat(runs) == IF runs = <<>> THEN <<>> ELSE Head(runs).text \o Concat(Tail(runs))
\* The first index from i on whose byte is not in S and is no control byte
\* other than ESC, or Len(q) + 1.
RECURSIVE SkipWhile(_, _, _)
SkipWhile(q, i, S) ==
    IF i > Len(q) THEN i
    ELSE IF q[i] \in S \/ (IsControl(q[i]) /\ q[i] # 27) THEN SkipWhile(q, i + 1, S)
    ELSE i
\* The index of the last byte of the escape sequence whose ESC is q[i].
EscapeEnd(q, i) ==
    LET j == SkipWhile(q, i + 1, {}) IN
    IF j > Len(q) THEN Len(q)
    ELSE IF q[j] = 27 THEN j - 1
    ELSE IF q[j] = 91
         THEN LET k == SkipWhile(q, j + 1, (48..57) \cup {59}) IN
              IF k > Len(q) THEN Len(q) ELSE IF q[k] = 27 THEN k - 1 ELSE k
    ELSE j
RECURSIVE WithoutEscapesFrom(_, _)
WithoutEscapesFrom(q, i) ==
    IF i > Len(q) THEN <<>>
    ELSE IF q[i] = 27 THEN WithoutEscapesFrom(q, EscapeEnd(q, i) + 1)
    ELSE <<q[i]>> \o WithoutEscapesFrom(q, i + 1)
WithoutEscapes(q) == WithoutEscapesFrom(q, 1)
RECURSIVE WithoutControls(_)
WithoutControls(q) ==
    IF q = <<>> THEN <<>>
    ELSE IF IsControl(Head(q)) THEN WithoutControls(Tail(q))
    ELSE <<Head(q)>> \o WithoutControls(Tail(q))
\* The base colour of a record: yellow for warnings, red for errors, the
\* default colour otherwise.
BaseColor == IF base_level = "Warn" THEN "YELLOW"
             ELSE IF base_level = "Error" THEN "RED" ELSE "PLACEHOLDER"

\* C8: "A" ESC"[33m" "B" ESC"[0m" "C" with the default base colour is shown
\* as the three runs ("A", default), ("B", yellow), ("C", default).
C8_ColorTransitionScenario ==
    (Decoded /\ line = ScenarioLine /\ base_level = "Info") =>
        labels = << [text |-> <<65>>, color |-> "PLACEHOLDER"],
                    [text |-> <<66>>, color |-> "YELLOW"],
                    [text |-> <<67>>, color |-> "PLACEHOLDER"] >>

\* C9 as stated: a line without escape sequence is shown as exactly one
\* run, the whole line in the base colour.
C9_PlainTextOneRun ==
    (Decoded /\ HasNoEscape(line)) =>
        labels = <<[text |-> line, color |-> BaseColor]>>

\* C9 amended: a line that is not empty and holds printable characters
\* only (no escape sequence, no control character such as the newline) is
\* shown as exactly one run, the whole line in the base colour.
C9_PrintableTextOneRun ==
    (Decoded /\ line # <<>> /\ IsPrintable(line)) =>
        labels = <<[text |-> line, color |-> BaseColor]>>

C9_Witness ==
    /\ Decoded
    /\ Len(line) = MaxLineLen
    /\ IsPrintable(line)
    /\ base_level = "Warn"
    /\ Len(labels) = 1

\* C10 as stated: the texts of the runs of a line, put together in order,
\* are the line without its escape sequences.
C10_RoundTrip ==
    Decoded => Concat(labels) = WithoutEscapes(line)

\* C10 amended: the texts of the runs of a line, put together in order, are
\* the line without its escape sequences and without its control
\* characters (the newline among them).
C10_RoundTripWithoutControls ==
    Decoded => Concat(labels) = WithoutControls(WithoutEscapes(line))

\* A line with text before and after a complete SGR sequence.
C10_Witness ==
    /\ Decoded
    /\ \E i \in 2..(Len(line) - 3) :
          /\ line[i] = 27 /\ line[i + 1] = 91 /\ line[i + 2] = 109
          /\ line[i - 1] = 65 /\ line[i + 3] = 65
    /\ Concat(labels) # <<>>
    /\ Len(Concat(labels)) < Len(line)

\* The index of the first ESC of a line, or Len(q) + 1.
FirstEscape(q) ==
    IF HasNoEscape(q) THEN Len(q) + 1
    ELSE CHOOSE i \in 1..Len(q) : q[i] = 27 /\ \A j \in 1..(i - 1) : q[j] # 27
TextBeforeEscape(q) == WithoutControls(SubSeq(q, 1, FirstEscape(q) - 1))

\* C11: for every line, one that ends inside an escape sequence or holds an
\* unknown one included, the loop over the bytes always has a next step
\* until it is over, it is over only when every byte is consumed, and the
\* text that came before the first escape sequence is shown by the final
\* flush, at the start of the first run.
C11_MalformedResilience ==
    /\ pos <= Len(line) + 1
    /\ (dpc \in {"start", "advance"} => ENABLED NextDecode)
    /\ (Decoded =>
          /\ pos = Len(line) + 1
          /\ LET before == TextBeforeEscape(line) IN
             before # <<>> =>
                /\ labels # <<>>
                /\ Len(labels[1].text) >= Len(before)
                /\ SubSeq(labels[1].text, 1, Len(before)) = before)

\* A line with text and then ESC "[" at its end: the parser is still inside
\* the sequence when the bytes are over.
C11_Witness ==
    /\ Decoded
    /\ Len(line) >= 3
    /\ line[1] = 65
    /\ line[Len(line) - 1] = 27 /\ line[Len(line)] = 91
    /\ state = "CsiEntry"
    /\ labels # <<>>

\* The pieces of a line between its newlines, the empty ones left out.
RECURSIVE Segments(_)
Segments(q) ==
    IF q = <<>> THEN <<>>
    ELSE LET k == IF \E i \in 1..Len(q) : q[i] = 10
                  THEN CHOOSE i \in 1..Len(q) : q[i] = 10 /\ \A j \in 1..(i - 1) : q[j] # 10
                  ELSE Len(q) + 1
             seg == SubSeq(q, 1, k - 1)
             rest == IF k >= Len(q) THEN <<>> ELSE SubSeq(q, k + 1, Len(q))
         IN (IF seg = <<>> THEN <<>> ELSE <<seg>>) \o Segments(rest)

\* C16: a newline inside the text of a line ends a run: the text pending
\* before it, if any, is shown as a run in the current colour, the newline is
\* in no run, and the text left at the end of the line is the final run.
\* For a line without escape sequence the runs are its pieces between
\* newlines, each in the base colour.
C16_NewlineFlush ==
    (Decoded /\ HasNoEscape(line)) =>
        labels = [i \in 1..Len(Segments(line)) |->
                     [text |-> Segments(line)[i], color |-> BaseColor]]

\* C17: every run handed to ui.colored_label has a text that is not empty,
\* and once the flush at the end of a line has run the pending text is
\* empty; so too for the empty line, for a line of newlines only and for a
\* line of escape sequences only, which give no run at all.
C17_NoEmptyRuns ==
    /\ \A i \in 1..Len(labels) : labels[i].text # <<>>
    /\ (Decoded => text = <<>>)
    /\ (Decoded /\ WithoutControls(WithoutEscapes(line)) = <<>> => labels = <<>>)

\* A line that is not empty, made of a newline and a complete escape
\* sequence, decoded to no run.
C17_Witness ==
    /\ Decoded
    /\ Len(line) >= 4
    /\ \E i \in 1..Len(line) : line[i] = 10
    /\ \E i \in 1..(Len(line) - 2) : line[i] = 27 /\ line[i + 1] = 91 /\ line[i + 2] = 109
    /\ labels = <<>>

(***************************************************************************)
(* Properties of "Copy Logs", under Spec.                                  *)
(***************************************************************************)
\* The records whose strings are in a copied text, in its order.
RECURSIVE CopiedRecords(_)
CopiedRecords(t) ==
    IF t = <<>> THEN <<>>
    ELSE IF Head(t).piece = "string" THEN <<Head(t).r>> \o CopiedRecords(Tail(t))
    ELSE CopiedRecords(Tail(t))
Copying == pc[Renderer] = "copy" /\ pc'[Renderer] = "idle" /\ ~poisoned

\* C12: the text "Copy Logs" produces is made, in store order, of the
\* strings of exactly the records that pass the display threshold of the
\* frame; a record the threshold excludes is not in it.
C12_ExportHonoursThreshold ==
    [][Copying => CopiedRecords(copied_text') = Admitted(LOG, level_filter)]_vars

(***************************************************************************)
(* Properties of the lock on the store, under Spec.                        *)
(***************************************************************************)
\* The traversal has handed at least one record to its visitor, which
\* decodes and renders it (ui.rs:84-101), and is not over.
Visiting == Traversing /\ visited # <<>>

\* C14: the lock on the store is not held while the visitor of
\* log_filter_process decodes and renders a record, so that a push or clear
\* of another thread never waits for it.
C14_LockNotHeldAcrossVisit ==
    Visiting => lock # Renderer

\* C15: the records are pushed in the order in which their threads took the
\* lock (a record's n numbers the acquisitions): in the store, from the
\* front, a record taken later comes before one taken earlier, and so two
\* records of one thread are in the order in which the thread logged them.
C15_PushOrderIsLockOrder ==
    /\ \A i, j \in 1..Len(LOG) : i < j => LOG[i].n > LOG[j].n
    /\ \A i, j \in 1..Len(hist) :
          (i < j /\ hist[i].op = "push" /\ hist[j].op = "push") => hist[i].r.n < hist[j].r.n
    /\ \A i, j \in 1..Len(LOG) :
          (LOG[i].by = LOG[j].by /\ LOG[i].n > LOG[j].n) => i < j

\* The store holds two records of one thread, pushed after a record of the
\* other thread.
C15_Witness ==
    /\ Len(LOG) = 2
    /\ LOG[1].by = LOG[2].by
    /\ Len(hist) >= 3
    /\ \E i \in 1..Len(hist) : hist[i].op = "push" /\ hist[i].r.by # LOG[1].by

\* The two labels of a frame have their numbers: the traversal and the
\* query of the length are both over.
FrameShown == calls.render > 0 /\ pc[Renderer] \in {"idle", "copy"}

\* C18: in one call of LoggerUi::ui the number shown as "Displayed" is never
\* greater than the number shown as "Log size", which is read under a later
\* hold of the lock, even when other threads push or clear in between.
C18_DisplayedAtMostLogSize ==
    FrameShown => logs_displayed <= log_size

(***************************************************************************)
(* Properties of Logger::log, under SpecLogger.  A step is told to be the  *)
(* call log(record) of thread p for a record of level l and the answer en  *)
(* of the inner logger by the action LogLock; what the call then does is   *)
(* read from the state after the step.                                     *)
(***************************************************************************)
\* The call of p has decided to push a record of level l.
Pushes(p, l) == pc'[p] = "push_front" /\ rec'[p].level = l /\ rec'[p].by = p
\* Lines the call has given to env_logger's target.
Emitted == env_out' - env_out
\* A record enters the store only as the record of a call that decided so.
OnlyDecidedRecordsEnter ==
    \/ LOG' = LOG
    \/ Len(LOG') < Len(LOG)
    \/ \E p \in Producers : pc[p] = "push_front" /\ LOG' = <<rec[p]>> \o LOG

\* C13 as stated: a log event is appended to the store if and only if the
\* inner logger enables it, log_to_egui_ui is true and its level is within
\* ui_level_filter; and every enabled event is emitted to env_logger exactly
\* once when log_to_env_logger is true and never when it is false.
C13_UiFilterLimitsOnlyStore ==
    [][/\ OnlyDecidedRecordsEnter
       /\ \A p \in Producers, l \in LoggerLevels, en \in BOOLEAN :
             LogLock(p, l, en) =>
                /\ Pushes(p, l) <=>
                      (en /\ log_to_egui_ui /\ l \in Admits(ui_level_filter))
                /\ Emitted = IF en /\ log_to_env_logger THEN 1 ELSE 0]_vars

\* C13 amended: a log event is appended to the store if and only if the
\* inner logger enables it, log_to_egui_ui is true, its level is within
\* ui_level_filter and the lock of the store is not poisoned; the emission
\* to env_logger is as stated, poisoned or not.
C13_UiFilterLimitsOnlyUnpoisonedStore ==
    [][/\ OnlyDecidedRecordsEnter
       /\ \A p \in Producers, l \in LoggerLevels, en \in BOOLEAN :
             LogLock(p, l, en) =>
                /\ Pushes(p, l) <=>
                      (en /\ log_to_egui_ui /\ l \in Admits(ui_level_filter) /\ ~poisoned)
                /\ Emitted = IF en /\ log_to_env_logger THEN 1 ELSE 0]_vars

\* With ui_level_filter Error, an Error record is in the store and an event
\* of a lesser level has gone to env_logger alone.
C13_Witness ==
    /\ ui_level_filter = "Error"
    /\ log_to_egui_ui /\ log_to_env_logger
    /\ ~poisoned
    /\ \A p \in Producers : pc[p] = "idle"
    /\ calls.log = 2
    /\ env_out = 2
    /\ Len(LOG) = 1 /\ LOG[1].level = "Error"

(***************************************************************************)
(* Properties of the thread-local buffer LOG_VEC, under Spec.              *)
(***************************************************************************)
\* The step is the start of a call of p that formats its event into the
\* buffer taken from LOG_VEC (lib.rs:116-122) and goes on to push it.
FormattingStarts(p) == pc[p] = "idle" /\ pc'[p] = "push_front"

\* C20: the text stored for an event is made of the bytes formatted for that
\* event only; the buffer LOG_VEC of a thread is reused from event to event
\* and is empty whenever the formatting of an event starts.
C20_BufferEmptyWhenFormattingStarts ==
    [][\A p \in Producers : FormattingStarts(p) => LOG_VEC[p] = 0]_vars

(***************************************************************************)
(* Properties of the two locks, under SpecFair.                            *)
(***************************************************************************)
\* The thread is inside an operation: it has started and neither returned
\* nor unwound.
Busy(t) == pc[t] \notin {"idle", "panicked"}
\* The next step of the thread asks for the lock of the store.
AsksForStoreLock(t) == pc[t] \in {"idle", "len", "copy"}
LockDiscipline ==
    /\ \A t \in Threads : ~Busy(t) => (lock # t /\ ui_lock # t)
    /\ \A t \in Threads : AsksForStoreLock(t) => lock # t
    /\ ui_lock \in {"none", Renderer}

\* C19: the lock of LOGGER_UI is asked for only by a thread that holds no
\* lock, the lock of the store is never asked for by a thread that holds it,
\* and an operation that has returned holds no lock; under fair scheduling
\* every push, clear and render that has started comes to its end.
C19_DeadlockFreedom ==
    /\ []LockDiscipline
    /\ [][(ui_lock' # ui_lock /\ ui_lock' # "none") =>
             (ui_lock = "none" /\ lock # ui_lock')]_vars
    /\ \A t \in Threads : Busy(t) ~> ~Busy(t)

\* The renderer holds the guard of LOGGER_UI and waits for the lock of the
\* store, which a producer holds.
C19_Witness ==
    /\ pc[Renderer] = "len"
    /\ ui_lock = Renderer
    /\ lock \in Producers
====
